---------------------------- MODULE Spec2Model ----------------------------
(***************************************************************************)
(* A model of pycanvas/user.py: the User resource binding.  One User       *)
(* object (self) is driven by a caller that invokes its fourteen methods   *)
(* one after the other.  The requester, the paginated list, the uploader,  *)
(* combine_kwargs, obj_or_id and CanvasObject.set_attributes are the       *)
(* collaborators user.py imports; they are modelled by what user.py relies *)
(* on them to do.                                                          *)
(***************************************************************************)
EXTENDS Integers, Sequences, FiniteSets, TLC

VARIABLES
    attrs,   \* the attribute bag of self: attribute name -> JSON value
    id0,     \* the id self was constructed with (history)
    sent,    \* number of requests the requester has received
    calls,   \* number of invocations made by the caller
    plist,   \* the PaginatedList most recently returned to the caller
    hist,    \* which kinds of invocation the caller has made so far (history)
    last     \* what the most recent invocation did and gave back

vars == <<attrs, id0, sent, calls, plist, hist, last>>

(***************************************************************************)
(* Bounds                                                                  *)
(***************************************************************************)
MaxCalls == 2

(***************************************************************************)
(* JSON values, as far as the attribute bag and the bodies need them       *)
(***************************************************************************)
JInt(n) == [kind |-> "int", n |-> n, s |-> ""]
JStr(s) == [kind |-> "str", n |-> 0, s |-> s]
JNull == [kind |-> "null", n |-> 0, s |-> ""]

UserIds == {5, 7}
CourseIds == {42}
AssetStrings == {"course_42"}
Hexcodes == {"#ffffff", "ffffff"}
Files == {"report.txt"}

Keys == {"id", "name", "merge_into_id"}

KeyValues(k) ==
    CASE k = "id" -> {JInt(i) : i \in UserIds}
      [] k = "name" -> {JStr("b")}
      [] k = "merge_into_id" -> {JNull}

EmptyBody == [k \in {} |-> JNull]

\* the JSON objects the remote system may answer with
Bodies ==
    UNION { { f \in [S -> UNION {KeyValues(k) : k \in Keys}] :
                \A k \in S : f[k] \in KeyValues(k) } : S \in SUBSET Keys }

TransportErrors == {"ConnectionError", "ResourceDoesNotExist"}

\* what one call of the requester does: return a response or raise
Outcomes ==
    { [ok |-> TRUE, body |-> b, err |-> "none"] : b \in Bodies }
    \cup { [ok |-> FALSE, body |-> EmptyBody, err |-> e] : e \in TransportErrors }

(***************************************************************************)
(* '%s' formatting                                                         *)
(***************************************************************************)
Digit(n) == <<"0", "1", "2", "3", "4", "5", "6", "7", "8", "9">>[n + 1]

RECURSIVE Str(_)
Str(n) == IF n < 10 THEN Digit(n) ELSE Str(n \div 10) \o Digit(n % 10)

\* '%s' % v for a JSON value v
Format(v) ==
    CASE v.kind = "int" -> Str(v.n)
      [] v.kind = "str" -> v.s
      [] v.kind = "null" -> "None"

(***************************************************************************)
(* Keyword arguments                                                       *)
(***************************************************************************)
NoKwargs == {}

Kwargs ==
    { NoKwargs,
      {[kw |-> "per_page", sub |-> "", value |-> "10"]},
      {[kw |-> "user", sub |-> "name", value |-> "b"]} }

\* util.combine_kwargs: a nested keyword becomes kw[sub]
combine_kwargs(kwargs) ==
    { [key |-> IF e.sub = "" THEN e.kw ELSE e.kw \o "[" \o e.sub \o "]",
       value |-> e.value] : e \in kwargs }

NoParams == {}

(***************************************************************************)
(* Requests                                                                *)
(***************************************************************************)
NoReq == [method |-> "", path |-> "", params |-> NoParams]

\* the request self._requester.request(method, path, **params) hands over
request(method, path, params) ==
    [method |-> method, path |-> path, params |-> params]

(***************************************************************************)
(* Destinations of merge_into                                              *)
(***************************************************************************)
NoDest == [kind |-> "", id |-> 0, name |-> ""]

Destinations ==
    { [kind |-> "int", id |-> d, name |-> ""] : d \in UserIds }
    \cup { [kind |-> "User", id |-> d, name |-> "dana"] : d \in UserIds }
    \cup { [kind |-> "Course", id |-> d, name |-> "algebra"] : d \in UserIds }
    \cup { [kind |-> "None", id |-> 0, name |-> ""] }

\* util.obj_or_id: a raw identifier, or the id of an object of one of the
\* accepted types; a TypeError otherwise
obj_or_id(parameter, param_name, object_types) ==
    IF parameter.kind = "int"
    THEN [ok |-> TRUE, id |-> parameter.id]
    ELSE IF parameter.kind \in object_types
         THEN [ok |-> TRUE, id |-> parameter.id]
         ELSE [ok |-> FALSE, id |-> 0]

\* CanvasObject.set_attributes: every key of the body becomes an attribute
set_attributes(a, body) ==
    [k \in (DOMAIN a) \cup (DOMAIN body) |->
        IF k \in DOMAIN body THEN body[k] ELSE a[k]]

(***************************************************************************)
(* The record of an invocation                                             *)
(***************************************************************************)
NoArg == JNull
NoList == [cls |-> "", method |-> "", path |-> "", params |-> NoParams,
           fetched |-> FALSE]

PaginatedList(cls, method, path, params) ==
    [cls |-> cls, method |-> method, path |-> path, params |-> params,
     fetched |-> FALSE]

NoCall ==
    [op |-> "", arg |-> NoArg, dest |-> NoDest, outcome |-> "",
     error |-> "none", transport |-> "none", ret |-> "none",
     body |-> EmptyBody, req |-> NoReq, pre |-> EmptyBody, preSent |-> 0]

Returned(op, arg, dest, ret, body, req) ==
    [op |-> op, arg |-> arg, dest |-> dest, outcome |-> "returned",
     error |-> "none", transport |-> "none", ret |-> ret,
     body |-> body, req |-> req, pre |-> attrs, preSent |-> sent]

Raised(op, arg, dest, error, transport, req) ==
    [op |-> op, arg |-> arg, dest |-> dest, outcome |-> "raised",
     error |-> error, transport |-> transport, ret |-> "none",
     body |-> EmptyBody, req |-> req, pre |-> attrs, preSent |-> sent]

\* the seven operations that return a parsed body or self
NonListing ==
    {"get_profile", "update_settings", "get_color", "get_colors",
     "update_color", "edit", "merge_into"}

\* the six operations that return a PaginatedList
Listing ==
    {"get_page_views", "get_courses", "get_missing_submissions",
     "get_avatars", "get_assignments", "get_enrollments"}

\* hist: "direct" while every invocation was a non-listing operation that
\* reached the requester, "direct_rejected" once one of them was refused
\* for its argument, "mixed" once anything else was invoked
Track(h, kind) ==
    IF h = "mixed" \/ kind = "other" THEN "mixed"
    ELSE IF h = "direct_rejected" \/ kind = "rejected" THEN "direct_rejected"
    ELSE "direct"

Invoke(kind) ==
    /\ calls < MaxCalls
    /\ calls' = calls + 1
    /\ hist' = Track(hist, kind)

Init ==
    /\ attrs \in { [id |-> JInt(i), name |-> JStr("a")] : i \in UserIds }
    /\ id0 = attrs["id"]
    /\ sent = 0
    /\ calls = 0
    /\ plist = NoList
    /\ hist = "direct"
    /\ last = NoCall

get_profile(kwargs, out) ==
    LET req == request("GET", "users/" \o Format(attrs["id"]) \o "/profile",
                       NoParams)
    IN  /\ Invoke("direct")
        /\ sent' = sent + 1
        /\ last' = IF out.ok
                   THEN Returned("get_profile", NoArg, NoDest, "json",
                                 out.body, req)
                   ELSE Raised("get_profile", NoArg, NoDest, out.err,
                               out.err, req)
        /\ UNCHANGED <<attrs, id0, plist>>

get_page_views(kwargs) ==
    /\ Invoke("other")
    /\ plist' = PaginatedList("PageView", "GET",
                    "users/" \o Format(attrs["id"]) \o "/page_views",
                    combine_kwargs(kwargs))
    /\ last' = Returned("get_page_views", NoArg, NoDest, "list", EmptyBody,
                        NoReq)
    /\ UNCHANGED <<attrs, id0, sent>>

\* mutant: the list is turned into its items before it is returned
get_courses_eager(kwargs) ==
    LET path == "users/" \o Format(attrs["id"]) \o "/courses"
    IN  /\ Invoke("other")
        /\ sent' = sent + 1
        /\ plist' = [PaginatedList("Course", "GET", path,
                                   combine_kwargs(kwargs))
                         EXCEPT !.fetched = TRUE]
        /\ last' = Returned("get_courses", NoArg, NoDest, "list", EmptyBody,
                            request("GET", path, combine_kwargs(kwargs)))
        /\ UNCHANGED <<attrs, id0>>

get_courses(kwargs) ==
    /\ Invoke("other")
    /\ plist' = PaginatedList("Course", "GET",
                    "users/" \o Format(attrs["id"]) \o "/courses",
                    combine_kwargs(kwargs))
    /\ last' = Returned("get_courses", NoArg, NoDest, "list", EmptyBody,
                        NoReq)
    /\ UNCHANGED <<attrs, id0, sent>>

get_missing_submissions ==
    /\ Invoke("other")
    /\ plist' = PaginatedList("Assignment", "GET",
                    "users/" \o Format(attrs["id"]) \o "/missing_submissions",
                    NoParams)
    /\ last' = Returned("get_missing_submissions", NoArg, NoDest, "list",
                        EmptyBody, NoReq)
    /\ UNCHANGED <<attrs, id0, sent>>

\* mutant: the response of update_settings is stored on self
update_settings_stores(kwargs, out) ==
    LET req == request("PUT", "users/" \o Format(attrs["id"]) \o "/settings",
                       combine_kwargs(kwargs))
    IN  /\ Invoke("direct")
        /\ sent' = sent + 1
        /\ IF out.ok
           THEN /\ attrs' = set_attributes(attrs, out.body)
                /\ last' = Returned("update_settings", NoArg, NoDest, "json",
                                    out.body, req)
           ELSE /\ attrs' = attrs
                /\ last' = Raised("update_settings", NoArg, NoDest, out.err,
                                  out.err, req)
        /\ UNCHANGED <<id0, plist>>

update_settings(kwargs, out) ==
    LET req == request("PUT", "users/" \o Format(attrs["id"]) \o "/settings",
                       combine_kwargs(kwargs))
    IN  /\ Invoke("direct")
        /\ sent' = sent + 1
        /\ last' = IF out.ok
                   THEN Returned("update_settings", NoArg, NoDest, "json",
                                 out.body, req)
                   ELSE Raised("update_settings", NoArg, NoDest, out.err,
                               out.err, req)
        /\ UNCHANGED <<attrs, id0, plist>>

get_color(asset_string, out) ==
    LET req == request("GET",
                       "users/" \o Format(attrs["id"]) \o "/colors/"
                           \o Format(JStr(asset_string)),
                       NoParams)
    IN  /\ Invoke("direct")
        /\ sent' = sent + 1
        /\ last' = IF out.ok
                   THEN Returned("get_color", JStr(asset_string), NoDest,
                                 "json", out.body, req)
                   ELSE Raised("get_color", JStr(asset_string), NoDest,
                               out.err, out.err, req)
        /\ UNCHANGED <<attrs, id0, plist>>

\* mutant: a repeated get_colors answers from the previous call
get_colors_cached(out) ==
    LET req == request("GET", "users/" \o Format(attrs["id"]) \o "/colors",
                       NoParams)
        hit == last.op = "get_colors" /\ last.outcome = "returned"
    IN  /\ Invoke("direct")
        /\ sent' = IF hit THEN sent ELSE sent + 1
        /\ last' = IF hit
                   THEN Returned("get_colors", NoArg, NoDest, "json",
                                 last.body, NoReq)
                   ELSE IF out.ok
                        THEN Returned("get_colors", NoArg, NoDest, "json",
                                      out.body, req)
                        ELSE Raised("get_colors", NoArg, NoDest, out.err,
                                    out.err, req)
        /\ UNCHANGED <<attrs, id0, plist>>

get_colors(out) ==
    LET req == request("GET", "users/" \o Format(attrs["id"]) \o "/colors",
                       NoParams)
    IN  /\ Invoke("direct")
        /\ sent' = sent + 1
        /\ last' = IF out.ok
                   THEN Returned("get_colors", NoArg, NoDest, "json",
                                 out.body, req)
                   ELSE Raised("get_colors", NoArg, NoDest, out.err,
                               out.err, req)
        /\ UNCHANGED <<attrs, id0, plist>>

update_color(asset_string, hexcode, out) ==
    LET req == request("PUT",
                       "users/" \o Format(attrs["id"]) \o "/colors/"
                           \o Format(JStr(asset_string)),
                       {[key |-> "hexcode", value |-> hexcode]})
    IN  /\ Invoke("direct")
        /\ sent' = sent + 1
        /\ last' = IF out.ok
                   THEN Returned("update_color", JStr(asset_string), NoDest,
                                 "json", out.body, req)
                   ELSE Raised("update_color", JStr(asset_string), NoDest,
                               out.err, out.err, req)
        /\ UNCHANGED <<attrs, id0, plist>>

\* mutant: edit returns self without storing the response
edit_without_set_attributes(kwargs, out) ==
    LET req == request("PUT", "users/" \o Format(attrs["id"]),
                       combine_kwargs(kwargs))
    IN  /\ Invoke("direct")
        /\ sent' = sent + 1
        /\ attrs' = attrs
        /\ last' = IF out.ok
                   THEN Returned("edit", NoArg, NoDest, "self", out.body, req)
                   ELSE Raised("edit", NoArg, NoDest, out.err, out.err, req)
        /\ UNCHANGED <<id0, plist>>

\* mutant: edit stores the response but puts the old id back
edit_keeps_id(kwargs, out) ==
    LET req == request("PUT", "users/" \o Format(attrs["id"]),
                       combine_kwargs(kwargs))
    IN  /\ Invoke("direct")
        /\ sent' = sent + 1
        /\ IF out.ok
           THEN /\ attrs' = [set_attributes(attrs, out.body)
                                 EXCEPT !["id"] = attrs["id"]]
                /\ last' = Returned("edit", NoArg, NoDest, "self", out.body,
                                    req)
           ELSE /\ attrs' = attrs
                /\ last' = Raised("edit", NoArg, NoDest, out.err, out.err,
                                  req)
        /\ UNCHANGED <<id0, plist>>

\* mutant: edit sends the request a second time when the first one raises
edit_retries(kwargs, out) ==
    LET req == request("PUT", "users/" \o Format(attrs["id"]),
                       combine_kwargs(kwargs))
    IN  /\ Invoke("direct")
        /\ IF out.ok
           THEN /\ sent' = sent + 1
                /\ attrs' = set_attributes(attrs, out.body)
                /\ last' = Returned("edit", NoArg, NoDest, "self", out.body,
                                    req)
           ELSE /\ sent' = sent + 2
                /\ attrs' = attrs
                /\ last' = Raised("edit", NoArg, NoDest, out.err, out.err,
                                  req)
        /\ UNCHANGED <<id0, plist>>

edit(kwargs, out) ==
    LET req == request("PUT", "users/" \o Format(attrs["id"]),
                       combine_kwargs(kwargs))
    IN  /\ Invoke("direct")
        /\ sent' = sent + 1
        /\ IF out.ok
           THEN /\ attrs' = set_attributes(attrs, out.body)
                /\ last' = Returned("edit", NoArg, NoDest, "self", out.body,
                                    req)
           ELSE /\ attrs' = attrs
                /\ last' = Raised("edit", NoArg, NoDest, out.err, out.err,
                                  req)
        /\ UNCHANGED <<id0, plist>>

\* mutant: merge_into stores the response but puts the old id back
merge_into_keeps_id(destination_user, out) ==
    LET dest_user_id ==
            obj_or_id(destination_user, "destination_user", {"User"})
        req == request("PUT",
                       "users/" \o Format(attrs["id"]) \o "/merge_into/"
                           \o Format(JInt(dest_user_id.id)),
                       NoParams)
    IN  /\ Invoke(IF dest_user_id.ok THEN "direct" ELSE "rejected")
        /\ IF ~dest_user_id.ok
           THEN /\ last' = Raised("merge_into", NoArg, destination_user,
                                  "TypeError", "none", NoReq)
                /\ UNCHANGED <<attrs, sent>>
           ELSE /\ sent' = sent + 1
                /\ IF out.ok
                   THEN /\ attrs' = [set_attributes(attrs, out.body)
                                         EXCEPT !["id"] = attrs["id"]]
                        /\ last' = Returned("merge_into", NoArg,
                                            destination_user, "self",
                                            out.body, req)
                   ELSE /\ attrs' = attrs
                        /\ last' = Raised("merge_into", NoArg,
                                          destination_user, out.err, out.err,
                                          req)
        /\ UNCHANGED <<id0, plist>>

\* mutant: the path is formatted from the destination as given, so that a
\* User instance appears as its __str__, its name
merge_into_formats_destination(destination_user, out) ==
    LET dest_user_id ==
            obj_or_id(destination_user, "destination_user", {"User"})
        req == request("PUT",
                       "users/" \o Format(attrs["id"]) \o "/merge_into/"
                           \o (IF destination_user.kind = "int"
                               THEN Format(JInt(destination_user.id))
                               ELSE Format(JStr(destination_user.name))),
                       NoParams)
    IN  /\ Invoke(IF dest_user_id.ok THEN "direct" ELSE "rejected")
        /\ IF ~dest_user_id.ok
           THEN /\ last' = Raised("merge_into", NoArg, destination_user,
                                  "TypeError", "none", NoReq)
                /\ UNCHANGED <<attrs, sent>>
           ELSE /\ sent' = sent + 1
                /\ IF out.ok
                   THEN /\ attrs' = set_attributes(attrs, out.body)
                        /\ last' = Returned("merge_into", NoArg,
                                            destination_user, "self",
                                            out.body, req)
                   ELSE /\ attrs' = attrs
                        /\ last' = Raised("merge_into", NoArg,
                                          destination_user, out.err, out.err,
                                          req)
        /\ UNCHANGED <<id0, plist>>

\* mutant: the destination is not resolved through obj_or_id; whatever has
\* an id is taken, and the request goes out
merge_into_unchecked(destination_user, out) ==
    LET req == request("PUT",
                       "users/" \o Format(attrs["id"]) \o "/merge_into/"
                           \o Format(JInt(destination_user.id)),
                       NoParams)
    IN  /\ Invoke("direct")
        /\ sent' = sent + 1
        /\ IF out.ok
           THEN /\ attrs' = set_attributes(attrs, out.body)
                /\ last' = Returned("merge_into", NoArg, destination_user,
                                    "self", out.body, req)
           ELSE /\ attrs' = attrs
                /\ last' = Raised("merge_into", NoArg, destination_user,
                                  out.err, out.err, req)
        /\ UNCHANGED <<id0, plist>>

merge_into(destination_user, out) ==
    LET dest_user_id ==
            obj_or_id(destination_user, "destination_user", {"User"})
        req == request("PUT",
                       "users/" \o Format(attrs["id"]) \o "/merge_into/"
                           \o Format(JInt(dest_user_id.id)),
                       NoParams)
    IN  /\ Invoke(IF dest_user_id.ok THEN "direct" ELSE "rejected")
        /\ IF ~dest_user_id.ok
           THEN /\ last' = Raised("merge_into", NoArg, destination_user,
                                  "TypeError", "none", NoReq)
                /\ UNCHANGED <<attrs, sent>>
           ELSE /\ sent' = sent + 1
                /\ IF out.ok
                   THEN /\ attrs' = set_attributes(attrs, out.body)
                        /\ last' = Returned("merge_into", NoArg,
                                            destination_user, "self",
                                            out.body, req)
                   ELSE /\ attrs' = attrs
                        /\ last' = Raised("merge_into", NoArg,
                                          destination_user, out.err, out.err,
                                          req)
        /\ UNCHANGED <<id0, plist>>

get_avatars ==
    /\ Invoke("other")
    /\ plist' = PaginatedList("Avatar", "GET",
                    "users/" \o Format(attrs["id"]) \o "/avatars", NoParams)
    /\ last' = Returned("get_avatars", NoArg, NoDest, "list", EmptyBody,
                        NoReq)
    /\ UNCHANGED <<attrs, id0, sent>>

\* mutant: the two identifiers of the path are interpolated in the wrong
\* order
get_assignments_swapped(course_id, kwargs) ==
    /\ Invoke("other")
    /\ plist' = PaginatedList("Assignment", "GET",
                    "users/" \o Format(JInt(course_id)) \o "/courses/"
                        \o Format(attrs["id"]) \o "/assignments",
                    combine_kwargs(kwargs))
    /\ last' = Returned("get_assignments", JInt(course_id), NoDest, "list",
                        EmptyBody, NoReq)
    /\ UNCHANGED <<attrs, id0, sent>>

get_assignments(course_id, kwargs) ==
    /\ Invoke("other")
    /\ plist' = PaginatedList("Assignment", "GET",
                    "users/" \o Format(attrs["id"]) \o "/courses/"
                        \o Format(JInt(course_id)) \o "/assignments",
                    combine_kwargs(kwargs))
    /\ last' = Returned("get_assignments", JInt(course_id), NoDest, "list",
                        EmptyBody, NoReq)
    /\ UNCHANGED <<attrs, id0, sent>>

get_enrollments(kwargs) ==
    /\ Invoke("other")
    /\ plist' = PaginatedList("Enrollment", "GET",
                    "users/" \o Format(attrs["id"]) \o "/enrollments",
                    combine_kwargs(kwargs))
    /\ last' = Returned("get_enrollments", NoArg, NoDest, "list", EmptyBody,
                        NoReq)
    /\ UNCHANGED <<attrs, id0, sent>>

\* Uploader(requester, url, file, **kwargs).start(): the request that opens
\* the upload; the keywords go to the requester as they were given
Uploader_start(url, file, kwargs) ==
    request("POST", url,
            { [key |-> e.kw,
               value |-> IF e.sub = "" THEN e.value
                         ELSE "{" \o e.sub \o ": " \o e.value \o "}"] :
              e \in kwargs })

upload(file, kwargs, out) ==
    LET req == Uploader_start("users/" \o Format(attrs["id"]) \o "/files",
                              file, kwargs)
    IN  /\ Invoke("other")
        /\ sent' = sent + 1
        /\ last' = IF out.ok
                   THEN Returned("upload", JStr(file), NoDest, "tuple",
                                 out.body, req)
                   ELSE Raised("upload", JStr(file), NoDest, out.err,
                               out.err, req)
        /\ UNCHANGED <<attrs, id0, plist>>

\* the caller advances the PaginatedList it holds: the list asks the
\* requester for its page
iterate(out) ==
    LET req == request(plist.method, plist.path, plist.params)
    IN  /\ plist # NoList
        /\ Invoke("other")
        /\ sent' = sent + 1
        /\ plist' = [plist EXCEPT !.fetched = TRUE]
        /\ last' = IF out.ok
                   THEN Returned("iterate", JStr(plist.cls), NoDest, "items",
                                 out.body, req)
                   ELSE Raised("iterate", JStr(plist.cls), NoDest, out.err,
                               out.err, req)
        /\ UNCHANGED <<attrs, id0>>

Next ==
    \/ \E kw \in Kwargs, out \in Outcomes : get_profile(kw, out)
    \/ \E kw \in Kwargs : get_page_views(kw)
    \/ \E kw \in Kwargs : get_courses(kw)
    \/ get_missing_submissions
    \/ \E kw \in Kwargs, out \in Outcomes : update_settings(kw, out)
    \/ \E a \in AssetStrings, out \in Outcomes : get_color(a, out)
    \/ \E out \in Outcomes : get_colors(out)
    \/ \E a \in AssetStrings, h \in Hexcodes, out \in Outcomes :
           update_color(a, h, out)
    \/ \E kw \in Kwargs, out \in Outcomes : edit(kw, out)
    \/ \E d \in Destinations, out \in Outcomes : merge_into(d, out)
    \/ get_avatars
    \/ \E c \in CourseIds, kw \in Kwargs : get_assignments(c, kw)
    \/ \E kw \in Kwargs : get_enrollments(kw)
    \/ \E f \in Files, kw \in Kwargs, out \in Outcomes : upload(f, kw, out)
    \/ \E out \in Outcomes : iterate(out)

Spec == Init /\ [][Next]_vars
(***************************************************************************)
(* The documented request lines (method and path of each operation), with  *)
(* the identifiers written out as the text they must appear as             *)
(***************************************************************************)
IdText(n) ==
    CASE n = 5 -> "5"
      [] n = 7 -> "7"
      [] n = 42 -> "42"

Documented(op, id, arg, dest) ==
    LET u == "users/" \o IdText(id.n)
    IN  CASE op = "get_profile" -> <<"GET", u \o "/profile">>
          [] op = "get_page_views" -> <<"GET", u \o "/page_views">>
          [] op = "get_courses" -> <<"GET", u \o "/courses">>
          [] op = "get_missing_submissions" ->
                <<"GET", u \o "/missing_submissions">>
          [] op = "update_settings" -> <<"PUT", u \o "/settings">>
          [] op = "get_color" -> <<"GET", u \o "/colors/" \o arg.s>>
          [] op = "get_colors" -> <<"GET", u \o "/colors">>
          [] op = "update_color" -> <<"PUT", u \o "/colors/" \o arg.s>>
          [] op = "edit" -> <<"PUT", u>>
          [] op = "merge_into" ->
                <<"PUT", u \o "/merge_into/" \o IdText(dest.id)>>
          [] op = "get_avatars" -> <<"GET", u \o "/avatars">>
          [] op = "get_assignments" ->
                <<"GET", u \o "/courses/" \o IdText(arg.n) \o "/assignments">>
          [] op = "get_enrollments" -> <<"GET", u \o "/enrollments">>
          [] op = "upload" -> <<"POST", u \o "/files">>

Mutating == {"edit", "merge_into"}

\* C1: after a successful edit or merge_into every key of the response body
\* is an attribute of self with the response's value, and the call returned
\* self itself.
C1_ResponseReflected ==
    (last.op \in Mutating /\ last.outcome = "returned") =>
        /\ \A k \in DOMAIN last.body :
               k \in DOMAIN attrs /\ attrs[k] = last.body[k]
        /\ last.ret = "self"

\* a successful edit whose body overwrote one attribute and added another
C1_Witness ==
    /\ last.op = "edit"
    /\ last.outcome = "returned"
    /\ "id" \in DOMAIN last.body
    /\ last.body["id"] # last.pre["id"]
    /\ "merge_into_id" \in DOMAIN last.body
    /\ "merge_into_id" \notin DOMAIN last.pre

C3_Scenario ==
    /\ last.op = "merge_into"
    /\ last.outcome = "returned"
    /\ last.pre["id"] = JInt(5)
    /\ last.dest.kind = "User"
    /\ last.dest.id = 7
    /\ last.req.method = "PUT"
    /\ last.req.path = "users/5/merge_into/7"
    /\ last.body = [id |-> JInt(7), merge_into_id |-> JNull]

C4_SameRequestForObjectAndId ==
    (last.op = "merge_into" /\ last.dest.kind \in {"int", "User"}) =>
        last.req =
            [method |-> "PUT",
             path |-> "users/" \o IdText(last.pre["id"].n) \o "/merge_into/"
                          \o IdText(last.dest.id),
             params |-> {}]

\* merge_into was given a User instance whose id differs from that of self
C4_Witness ==
    /\ last.op = "merge_into"
    /\ last.dest.kind = "User"
    /\ last.dest.id # last.pre["id"].n
    /\ last.req # NoReq

\* C5: a destination that is neither a raw identifier nor a User makes
\* merge_into raise a TypeError, with no request sent and the attributes of
\* self unchanged.
C5_BadDestinationRejected ==
    (last.op = "merge_into" /\ last.dest.kind \notin {"int", "User"}) =>
        /\ last.outcome = "raised"
        /\ last.error = "TypeError"
        /\ last.req = NoReq
        /\ sent = last.preSent
        /\ attrs = last.pre

\* merge_into was given an object of another type, after an earlier request
C5_Witness ==
    /\ last.op = "merge_into"
    /\ last.dest.kind = "Course"
    /\ last.preSent = 1

C7_ListingIsLazy ==
    /\ last.op \in Listing =>
           /\ sent = last.preSent
           /\ last.req = NoReq
           /\ plist # NoList
           /\ ~plist.fetched
    /\ last.op = "iterate" =>
           /\ sent = last.preSent + 1
           /\ plist.fetched
           /\ last.req = request(plist.method, plist.path, plist.params)

\* a listing operation called after a request had already been sent
C7_Witness ==
    /\ last.op = "get_courses"
    /\ last.preSent = 1
    /\ plist.params # {}

\* C8 (as stated): every invocation of one of the seven non-listing
\* operations sends exactly one request; after n such invocations the
\* requester has received n requests.
C8_OneRequestPerCall ==
    /\ last.op \in NonListing => sent = last.preSent + 1 /\ last.req # NoReq
    /\ hist # "mixed" => sent = calls

\* C8 (amended): every invocation of one of the seven non-listing
\* operations, merge_into only when its destination resolves to an
\* identifier, sends exactly one request, also when repeated; after n such
\* invocations the requester has received n requests.
C8_OneRequestPerAcceptedCall ==
    /\ (last.op \in NonListing /\ last.error # "TypeError") =>
           sent = last.preSent + 1 /\ last.req # NoReq
    /\ hist = "direct" => sent = calls

\* the same operation invoked twice
C8_Witness ==
    /\ hist = "direct"
    /\ calls = 2
    /\ last.op = "get_colors"
    /\ last.preSent = 1
    /\ last.outcome = "returned"

\* C9: when the requester raises in edit or merge_into the caller gets that
\* same error, exactly one request was sent, and the attributes of self are
\* what they were before the call.
C9_TransportErrorPropagates ==
    (last.op \in Mutating /\ last.outcome = "raised" /\ last.req # NoReq) =>
        /\ last.error = last.transport
        /\ last.error \in TransportErrors
        /\ sent = last.preSent + 1
        /\ attrs = last.pre

\* the requester raised in edit on a User an earlier merge_into had changed
C9_Witness ==
    /\ last.op = "edit"
    /\ last.outcome = "raised"
    /\ last.transport = "ConnectionError"
    /\ "merge_into_id" \in DOMAIN last.pre

\* C10: the twelve operations other than edit and merge_into leave every
\* attribute of self as it was, whatever the response body holds.
C10_OnlyEditAndMergeMutate ==
    last.op \in (NonListing \cup Listing \cup {"upload"}) \ Mutating =>
        attrs = last.pre

\* update_settings got a body whose id differs from the id of self
C10_Witness ==
    /\ last.op = "update_settings"
    /\ last.outcome = "returned"
    /\ "id" \in DOMAIN last.body
    /\ last.body["id"] # attrs["id"]
    /\ "name" \in DOMAIN last.body
    /\ last.body["name"] # attrs["name"]
=============================================================================
